---- MODULE Spec2Model ----
(***************************************************************************)
(* Model of tadovas/safe-storage: the Merkle tree (src/merkle.rs), the     *)
(* digest (src/sha3.rs), the server storage and handlers (src/storage.rs,  *)
(* src/service.rs) and the client commands (src/bin/cli.rs).               *)
(*                                                                         *)
(* Specifications.                                                         *)
(*   Spec        a Tree and a LightTree fed the same leaves                *)
(*   SpecProof   a Tree, appends and proof_for calls                       *)
(*   SpecPair    two Trees fed leaves of their own                         *)
(*   SpecServer  the handlers of the server on concurrent workers          *)
(*   SpecCli     the client commands against a server that answers a       *)
(*               download with any content and proof it likes              *)
(*   SpecPersist upload commands of one client against the server, next    *)
(*               to a light tree that is never stored                      *)
(*   SpecParse   one Hash::from_str call on a string                       *)
(*   SpecSteps   Tree::append run one update_next_layer call at a time     *)
(*   SpecUpload  the upload command statement by statement, with reads,    *)
(*               upload requests and the root fetch that can fail          *)
(*                                                                         *)
(* Digests.  A byte string is a sequence of integers; file contents use    *)
(* the bytes 1..NumContents.  SHA3-256 is modelled as a collision-free     *)
(* function: the digest of a byte string c is the string c between the     *)
(* two marks 0 and -1, which stands for the 32 bytes of the digest.  Two   *)
(* digests laid end to end split again in one way only, as two 32-byte     *)
(* values do.                                                              *)
(*                                                                         *)
(* Options.  Rust's None is the empty sequence, Some(x) is <<x>>.          *)
(* Indices.  Rust indices are zero-based; sequences here are one-based,    *)
(* so element i of a Vec is v[i + 1].                                      *)
(***************************************************************************)
EXTENDS Integers, Sequences, FiniteSets, TLC

\* ------------------------------------------------------------------ bounds
MaxLeaves == 10
MaxProofLeaves == 7
MaxPairLeaves == 4
MaxUploads == 2
NumWorkers == 2
MaxCliFiles == 2
MaxBatch == 2
NumContents == 2
MaxPersistFiles == 6
MaxTextLen == 6
MaxStepLeaves == 8
MaxUploadFiles == 3

\* The contents a file can have: one byte each.
Contents == {<<b>> : b \in 1..NumContents}

None == <<>>
Some(x) == <<x>>

\* ------------------------------------------------------------------ sha3.rs
\* Sha3_256::digest(content): collision-free.
hash_content(content) == <<0>> \o content \o <<0 - 1>>

\* Sha3_256 fed hash1's bytes and then hash2's bytes: the digest of the
\* two digests laid end to end.
hash_both(hash1, hash2) == hash_content(hash1 \o hash2)

\* impl Hash<sha3::Hash> for sha3::Hash
hash_of(left, right) == hash_both(left, right)

\* ------------------------------------------------------------------ merkle.rs: Tree
Tree_new == [leaves |-> <<>>, nodes |-> <<>>]

Tree_root(tree) ==
    IF tree.nodes = <<>> THEN None
    ELSE LET top == tree.nodes[Len(tree.nodes)]
         IN IF top = <<>> THEN None ELSE Some(top[Len(top)])

\* hash_of_siblings with the last element paired with itself always.
hash_of_siblings_left_dropped(hash_list) ==
    LET right_child_exists == Len(hash_list) % 2 = 0
        last == Len(hash_list)
        right == hash_list[last]
    IN [hash |-> hash_of(right, right), right_child_added |-> right_child_exists]

\* The hash of the last pair of the list, the last element paired with
\* itself when the list has odd length, and whether the pair is a real one.
hash_of_siblings(hash_list) ==
    LET right_child_exists == Len(hash_list) % 2 = 0
        last == Len(hash_list)
        left == IF right_child_exists THEN hash_list[last - 1] ELSE hash_list[last]
        right == hash_list[last]
    IN [hash |-> hash_of(left, right), right_child_added |-> right_child_exists]

\* update_next_layer without the sticky overwrite: the flag handed upward is
\* right_child_added alone.
RECURSIVE update_next_layer_not_sticky(_, _, _, _)
update_next_layer_not_sticky(nodes, layer, hash, update_last_hash) ==
    IF layer + 1 > Len(nodes)
    THEN Append(nodes, <<hash>>)
    ELSE LET old == nodes[layer + 1]
             hash_list == IF update_last_hash
                          THEN [old EXCEPT ![Len(old)] = hash]
                          ELSE Append(old, hash)
             updated == [nodes EXCEPT ![layer + 1] = hash_list]
         IN IF Len(hash_list) = 1
            THEN updated
            ELSE LET s == hash_of_siblings(hash_list)
                 IN update_next_layer_not_sticky(updated, layer + 1, s.hash,
                                                 s.right_child_added)

\* update_next_layer that returns after an overwrite and leaves the layers
\* above as they were.
RECURSIVE update_next_layer_overwrite_returns(_, _, _, _)
update_next_layer_overwrite_returns(nodes, layer, hash, update_last_hash) ==
    IF layer + 1 > Len(nodes)
    THEN Append(nodes, <<hash>>)
    ELSE LET old == nodes[layer + 1]
             hash_list == IF update_last_hash
                          THEN [old EXCEPT ![Len(old)] = hash]
                          ELSE Append(old, hash)
             updated == [nodes EXCEPT ![layer + 1] = hash_list]
         IN IF Len(hash_list) = 1 \/ update_last_hash
            THEN updated
            ELSE LET s == hash_of_siblings(hash_list)
                 IN update_next_layer_overwrite_returns(updated, layer + 1, s.hash,
                                                        s.right_child_added)

\* update_next_layer that pushes whatever update_last_hash says.
RECURSIVE update_next_layer_always_push(_, _, _, _)
update_next_layer_always_push(nodes, layer, hash, update_last_hash) ==
    IF layer + 1 > Len(nodes)
    THEN Append(nodes, <<hash>>)
    ELSE LET hash_list == Append(nodes[layer + 1], hash)
             updated == [nodes EXCEPT ![layer + 1] = hash_list]
         IN IF Len(hash_list) = 1
            THEN updated
            ELSE LET s == hash_of_siblings(hash_list)
                 IN update_next_layer_always_push(updated, layer + 1, s.hash,
                                                  s.right_child_added \/ update_last_hash)

RECURSIVE update_next_layer(_, _, _, _)
update_next_layer(nodes, layer, hash, update_last_hash) ==
    IF layer + 1 > Len(nodes)
    THEN Append(nodes, <<hash>>)
    ELSE LET old == nodes[layer + 1]
             hash_list == IF update_last_hash
                          THEN [old EXCEPT ![Len(old)] = hash]
                          ELSE Append(old, hash)
             updated == [nodes EXCEPT ![layer + 1] = hash_list]
         IN IF Len(hash_list) = 1
            THEN updated
            ELSE LET s == hash_of_siblings(hash_list)
                 IN update_next_layer(updated, layer + 1, s.hash,
                                      s.right_child_added \/ update_last_hash)

\* update_layer with push and overwrite exchanged.
update_layer_push_on_flag(nodes, layer, hash, update_last_hash) ==
    IF layer + 1 > Len(nodes)
    THEN [nodes |-> Append(nodes, <<hash>>), calls |-> FALSE,
          hash |-> <<>>, update_last_hash |-> FALSE]
    ELSE LET old == nodes[layer + 1]
             hash_list == IF update_last_hash
                          THEN Append(old, hash)
                          ELSE [old EXCEPT ![Len(old)] = hash]
             updated == [nodes EXCEPT ![layer + 1] = hash_list]
         IN IF Len(hash_list) = 1
            THEN [nodes |-> updated, calls |-> FALSE,
                  hash |-> <<>>, update_last_hash |-> FALSE]
            ELSE LET s == hash_of_siblings(hash_list)
                 IN [nodes |-> updated, calls |-> TRUE, hash |-> s.hash,
                     update_last_hash |-> s.right_child_added \/ update_last_hash]

\* update_layer that hands right_child_added alone to the next call.
update_layer_not_sticky(nodes, layer, hash, update_last_hash) ==
    IF layer + 1 > Len(nodes)
    THEN [nodes |-> Append(nodes, <<hash>>), calls |-> FALSE,
          hash |-> <<>>, update_last_hash |-> FALSE]
    ELSE LET old == nodes[layer + 1]
             hash_list == IF update_last_hash
                          THEN [old EXCEPT ![Len(old)] = hash]
                          ELSE Append(old, hash)
             updated == [nodes EXCEPT ![layer + 1] = hash_list]
         IN IF Len(hash_list) = 1
            THEN [nodes |-> updated, calls |-> FALSE,
                  hash |-> <<>>, update_last_hash |-> FALSE]
            ELSE LET s == hash_of_siblings(hash_list)
                 IN [nodes |-> updated, calls |-> TRUE, hash |-> s.hash,
                     update_last_hash |-> s.right_child_added]

\* update_layer without the return at a layer of one entry.
update_layer_no_stop(nodes, layer, hash, update_last_hash) ==
    IF layer + 1 > Len(nodes)
    THEN [nodes |-> Append(nodes, <<hash>>), calls |-> FALSE,
          hash |-> <<>>, update_last_hash |-> FALSE]
    ELSE LET old == nodes[layer + 1]
             hash_list == IF update_last_hash
                          THEN [old EXCEPT ![Len(old)] = hash]
                          ELSE Append(old, hash)
             updated == [nodes EXCEPT ![layer + 1] = hash_list]
             s == hash_of_siblings(hash_list)
         IN [nodes |-> updated, calls |-> TRUE, hash |-> s.hash,
             update_last_hash |-> s.right_child_added \/ update_last_hash]

\* One activation of update_next_layer, up to its return or its recursive
\* call: the nodes after it, whether it calls itself, and the arguments of
\* that call.
update_layer(nodes, layer, hash, update_last_hash) ==
    IF layer + 1 > Len(nodes)
    THEN [nodes |-> Append(nodes, <<hash>>), calls |-> FALSE,
          hash |-> <<>>, update_last_hash |-> FALSE]
    ELSE LET old == nodes[layer + 1]
             hash_list == IF update_last_hash
                          THEN [old EXCEPT ![Len(old)] = hash]
                          ELSE Append(old, hash)
             updated == [nodes EXCEPT ![layer + 1] = hash_list]
         IN IF Len(hash_list) = 1
            THEN [nodes |-> updated, calls |-> FALSE,
                  hash |-> <<>>, update_last_hash |-> FALSE]
            ELSE LET s == hash_of_siblings(hash_list)
                 IN [nodes |-> updated, calls |-> TRUE, hash |-> s.hash,
                     update_last_hash |-> s.right_child_added \/ update_last_hash]

\* Tree_push_leaf with the leaf put in front of the others.
Tree_push_leaf_in_front(tree, hash) == [tree EXCEPT !.leaves = <<hash>> \o @]

\* The first statement of Tree::append: self.leaves.push(hash).
Tree_push_leaf(tree, hash) == [tree EXCEPT !.leaves = Append(@, hash)]

\* Tree_update_layers that stops at a leaf level of one entry with no level
\* above it and creates no level.
Tree_update_layers_leaf_level_stops(tree) ==
    IF Len(tree.leaves) = 1 /\ tree.nodes = <<>> THEN tree
    ELSE LET s == hash_of_siblings(tree.leaves)
         IN [tree EXCEPT !.nodes = update_next_layer(@, 0, s.hash, s.right_child_added)]

\* The rest of Tree::append: the parent of the last leaf pair, carried upward.
Tree_update_layers(tree) ==
    LET s == hash_of_siblings(tree.leaves)
    IN [tree EXCEPT !.nodes = update_next_layer(@, 0, s.hash, s.right_child_added)]

Tree_append(tree, hash) == Tree_update_layers(Tree_push_leaf(tree, hash))

\* ------------------------------------------------------------------ merkle.rs: Proof
ProofNone == [kind |-> "None", hash |-> <<>>]
RightSiblign(h) == [kind |-> "RightSiblign", hash |-> h]
LeftSibling(h) == [kind |-> "LeftSibling", hash |-> h]

\* hash_list.get(i) for a zero-based i >= 0.
Get(hash_list, i) == IF i + 1 <= Len(hash_list) THEN Some(hash_list[i + 1]) ELSE None

\* proof_node_with_sibling with the names of the sides exchanged.
proof_node_with_sibling_sides_swapped(hash_list, index) ==
    LET sibling_is_on_the_right == index % 2 = 0
        sibling == IF sibling_is_on_the_right
                   THEN Get(hash_list, index + 1)
                   ELSE Get(hash_list, index - 1)
    IN IF sibling = None THEN ProofNone
       ELSE IF sibling_is_on_the_right THEN LeftSibling(sibling[1])
       ELSE RightSiblign(sibling[1])

proof_node_with_sibling(hash_list, index) ==
    LET sibling_is_on_the_right == index % 2 = 0
        sibling == IF sibling_is_on_the_right
                   THEN Get(hash_list, index + 1)
                   ELSE Get(hash_list, index - 1)
    IN IF sibling = None THEN ProofNone
       ELSE IF sibling_is_on_the_right THEN RightSiblign(sibling[1])
       ELSE LeftSibling(sibling[1])

\* proof_layers without index /= 2.
RECURSIVE proof_layers_index_not_halved(_, _, _)
proof_layers_index_not_halved(nodes, layer, index) ==
    IF layer > Len(nodes) \/ Len(nodes[layer]) = 1
    THEN <<>>
    ELSE <<proof_node_with_sibling(nodes[layer], index)>>
         \o proof_layers_index_not_halved(nodes, layer + 1, index)

\* The loop of Tree::proof_for over self.nodes, from layer (one-based) on:
\* it stops at the first layer of length 1, halves the index and takes the
\* sibling on every layer before that.
RECURSIVE proof_layers(_, _, _)
proof_layers(nodes, layer, index) ==
    IF layer > Len(nodes) \/ Len(nodes[layer]) = 1
    THEN <<>>
    ELSE <<proof_node_with_sibling(nodes[layer], index \div 2)>>
         \o proof_layers(nodes, layer + 1, index \div 2)

Tree_proof_for(tree, index) ==
    Some([nodes |-> <<proof_node_with_sibling(tree.leaves, index)>>
                    \o proof_layers(tree.nodes, 1, index)])

\* fold_proof with the sibling of a LeftSibling entry combined on the right.
RECURSIVE fold_proof_side_ignored(_, _, _)
fold_proof_side_ignored(nodes, k, h) ==
    IF k > Len(nodes) THEN h
    ELSE LET node == nodes[k]
             next == IF node.kind = "None" THEN hash_of(h, h)
                     ELSE hash_of(h, node.hash)
         IN fold_proof_side_ignored(nodes, k + 1, next)

\* The fold of Proof::verify from entry k (one-based) on.
RECURSIVE fold_proof(_, _, _)
fold_proof(nodes, k, h) ==
    IF k > Len(nodes) THEN h
    ELSE LET node == nodes[k]
             next == IF node.kind = "None" THEN hash_of(h, h)
                     ELSE IF node.kind = "RightSiblign" THEN hash_of(h, node.hash)
                     ELSE hash_of(node.hash, h)
         IN fold_proof(nodes, k + 1, next)

Proof_verify(proof, root_hash, hash) == root_hash = fold_proof(proof.nodes, 1, hash)

\* ------------------------------------------------------------------ merkle.rs: LightTree
PartialLeft(h) == [tag |-> "PartialLeft", left |-> h]
PartialRight(h) == [tag |-> "PartialRight", left |-> h]
Full == [tag |-> "Full", left |-> <<>>]

\* new_node with PartialLeft conflated with PartialRight in the last arm.
new_node_conflated(self, hash, new_element_stored, full_previous_node) ==
    IF self.state.tag = "PartialLeft"
    THEN [node |-> [hash |-> hash_of(hash, hash),
                    state |-> IF full_previous_node THEN PartialRight(hash)
                              ELSE PartialLeft(self.state.left)],
          stored |-> new_element_stored,
          failed |-> ~new_element_stored]
    ELSE IF self.state.tag = "PartialRight" /\ ~new_element_stored
    THEN [node |-> [hash |-> hash_of(self.state.left, hash), state |-> Full],
          stored |-> TRUE,
          failed |-> FALSE]
    ELSE IF self.state.tag = "PartialRight"
    THEN [node |-> [hash |-> hash_of(self.state.left, hash),
                    state |-> IF full_previous_node THEN Full
                              ELSE PartialRight(self.state.left)],
          stored |-> new_element_stored,
          failed |-> FALSE]
    ELSE IF ~new_element_stored
    THEN [node |-> [hash |-> hash_of(hash, hash), state |-> PartialRight(hash)],
          stored |-> TRUE,
          failed |-> FALSE]
    ELSE [node |-> [hash |-> hash_of(hash, hash), state |-> PartialRight(hash)],
          stored |-> new_element_stored,
          failed |-> FALSE]

\* new_node with the hash of a PartialRight node that stays PartialRight
\* taken from its left child alone.
new_node_hash_of_left(self, hash, new_element_stored, full_previous_node) ==
    IF self.state.tag = "PartialLeft"
    THEN [node |-> [hash |-> hash_of(hash, hash),
                    state |-> IF full_previous_node THEN PartialRight(hash)
                              ELSE PartialLeft(self.state.left)],
          stored |-> new_element_stored,
          failed |-> ~new_element_stored]
    ELSE IF self.state.tag = "PartialRight" /\ ~new_element_stored
    THEN [node |-> [hash |-> hash_of(self.state.left, hash), state |-> Full],
          stored |-> TRUE,
          failed |-> FALSE]
    ELSE IF self.state.tag = "PartialRight"
    THEN [node |-> [hash |-> IF full_previous_node THEN hash_of(self.state.left, hash)
                             ELSE hash_of(self.state.left, self.state.left),
                    state |-> IF full_previous_node THEN Full
                              ELSE PartialRight(self.state.left)],
          stored |-> new_element_stored,
          failed |-> FALSE]
    ELSE IF ~new_element_stored
    THEN [node |-> [hash |-> hash_of(hash, hash), state |-> PartialRight(hash)],
          stored |-> TRUE,
          failed |-> FALSE]
    ELSE [node |-> [hash |-> hash_of(hash, hash), state |-> PartialLeft(hash)],
          stored |-> new_element_stored,
          failed |-> FALSE]

\* new_node where a PartialRight node visited with the leaf stored never
\* becomes Full.
new_node_never_full_above(self, hash, new_element_stored, full_previous_node) ==
    IF self.state.tag = "PartialLeft"
    THEN [node |-> [hash |-> hash_of(hash, hash),
                    state |-> IF full_previous_node THEN PartialRight(hash)
                              ELSE PartialLeft(self.state.left)],
          stored |-> new_element_stored,
          failed |-> ~new_element_stored]
    ELSE IF self.state.tag = "PartialRight" /\ ~new_element_stored
    THEN [node |-> [hash |-> hash_of(self.state.left, hash), state |-> Full],
          stored |-> TRUE,
          failed |-> FALSE]
    ELSE IF self.state.tag = "PartialRight"
    THEN [node |-> [hash |-> hash_of(self.state.left, hash),
                    state |-> PartialRight(self.state.left)],
          stored |-> new_element_stored,
          failed |-> FALSE]
    ELSE IF ~new_element_stored
    THEN [node |-> [hash |-> hash_of(hash, hash), state |-> PartialRight(hash)],
          stored |-> TRUE,
          failed |-> FALSE]
    ELSE [node |-> [hash |-> hash_of(hash, hash), state |-> PartialLeft(hash)],
          stored |-> new_element_stored,
          failed |-> FALSE]

\* new_node where a Full node that takes the new element does not report it
\* stored.
new_node_full_not_stored(self, hash, new_element_stored, full_previous_node) ==
    IF self.state.tag = "PartialLeft"
    THEN [node |-> [hash |-> hash_of(hash, hash),
                    state |-> IF full_previous_node THEN PartialRight(hash)
                              ELSE PartialLeft(self.state.left)],
          stored |-> new_element_stored,
          failed |-> ~new_element_stored]
    ELSE IF self.state.tag = "PartialRight" /\ ~new_element_stored
    THEN [node |-> [hash |-> hash_of(self.state.left, hash), state |-> Full],
          stored |-> TRUE,
          failed |-> FALSE]
    ELSE IF self.state.tag = "PartialRight"
    THEN [node |-> [hash |-> hash_of(self.state.left, hash),
                    state |-> IF full_previous_node THEN Full
                              ELSE PartialRight(self.state.left)],
          stored |-> new_element_stored,
          failed |-> FALSE]
    ELSE IF ~new_element_stored
    THEN [node |-> [hash |-> hash_of(hash, hash), state |-> PartialRight(hash)],
          stored |-> FALSE,
          failed |-> FALSE]
    ELSE [node |-> [hash |-> hash_of(hash, hash), state |-> PartialLeft(hash)],
          stored |-> new_element_stored,
          failed |-> FALSE]

\* LightNode::new_node; failed is the assert! of the PartialLeft arm.
new_node(self, hash, new_element_stored, full_previous_node) ==
    IF self.state.tag = "PartialLeft"
    THEN [node |-> [hash |-> hash_of(hash, hash),
                    state |-> IF full_previous_node THEN PartialRight(hash)
                              ELSE PartialLeft(self.state.left)],
          stored |-> new_element_stored,
          failed |-> ~new_element_stored]
    ELSE IF self.state.tag = "PartialRight" /\ ~new_element_stored
    THEN [node |-> [hash |-> hash_of(self.state.left, hash), state |-> Full],
          stored |-> TRUE,
          failed |-> FALSE]
    ELSE IF self.state.tag = "PartialRight"
    THEN [node |-> [hash |-> hash_of(self.state.left, hash),
                    state |-> IF full_previous_node THEN Full
                              ELSE PartialRight(self.state.left)],
          stored |-> new_element_stored,
          failed |-> FALSE]
    ELSE IF ~new_element_stored
    THEN [node |-> [hash |-> hash_of(hash, hash), state |-> PartialRight(hash)],
          stored |-> TRUE,
          failed |-> FALSE]
    ELSE [node |-> [hash |-> hash_of(hash, hash), state |-> PartialLeft(hash)],
          stored |-> new_element_stored,
          failed |-> FALSE]

\* The for loop of LightTree::append from node k (one-based) on.  A failed
\* assertion unwinds: the nodes below k are already replaced, the rest are not.
RECURSIVE light_walk(_, _, _, _, _)
light_walk(nodes, k, next_hash, new_element_stored, full_previous_node) ==
    IF k > Len(nodes) THEN [nodes |-> nodes, panicked |-> FALSE]
    ELSE LET r == new_node(nodes[k], next_hash, new_element_stored, full_previous_node)
         IN IF r.failed THEN [nodes |-> nodes, panicked |-> TRUE]
            ELSE light_walk([nodes EXCEPT ![k] = r.node], k + 1, r.node.hash,
                            r.stored, r.node.state = Full)

\* The value of new_element_stored each node is visited with by the for loop
\* of LightTree::append, from node k on, up to a failed assertion.
RECURSIVE walk_stored(_, _, _, _, _)
walk_stored(nodes, k, next_hash, new_element_stored, full_previous_node) ==
    IF k > Len(nodes) THEN <<>>
    ELSE LET r == new_node(nodes[k], next_hash, new_element_stored, full_previous_node)
         IN <<new_element_stored>>
            \o (IF r.failed THEN <<>>
                ELSE walk_stored([nodes EXCEPT ![k] = r.node], k + 1, r.node.hash,
                                 r.stored, r.node.state = Full))

\* The nodes of a light tree that is not empty as the for loop of
\* LightTree::append finds them: with a new top over a Full top node.
with_new_top(nodes) ==
    LET top == nodes[Len(nodes)]
    IN IF top.state = Full
       THEN Append(nodes, [hash |-> top.hash, state |-> PartialRight(top.hash)])
       ELSE nodes

LightTree_new == [nodes |-> <<>>]

\* LightTree::append without the new top over a Full top node.
LightTree_append_no_new_top(light, elem) ==
    IF light.nodes = <<>>
    THEN [tree |-> [nodes |-> <<[hash |-> hash_of(elem, elem), state |-> PartialRight(elem)]>>],
          panicked |-> FALSE]
    ELSE LET w == light_walk(light.nodes, 1, elem, FALSE, FALSE)
         IN [tree |-> [nodes |-> w.nodes], panicked |-> w.panicked]

\* LightTree::append: the tree after the call and whether the call panicked.
LightTree_append(light, elem) ==
    IF light.nodes = <<>>
    THEN [tree |-> [nodes |-> <<[hash |-> hash_of(elem, elem), state |-> PartialRight(elem)]>>],
          panicked |-> FALSE]
    ELSE LET top == light.nodes[Len(light.nodes)]
             grown == IF top.state = Full
                      THEN Append(light.nodes, [hash |-> top.hash, state |-> PartialRight(top.hash)])
                      ELSE light.nodes
             w == light_walk(grown, 1, elem, FALSE, FALSE)
         IN [tree |-> [nodes |-> w.nodes], panicked |-> w.panicked]

LightTree_root(light) ==
    IF light.nodes = <<>> THEN None ELSE Some(light.nodes[Len(light.nodes)].hash)

\* ------------------------------------------------------------------ storage.rs
\* A Content is kept as its bytes; the file name is carried through unchanged
\* by every operation and is left out.
Storage_new == [tree |-> Tree_new, files |-> <<>>]

\* new_file_id without the - 1.
new_file_id_len(files) == Len(files)

\* The value add_new_file returns once the file is pushed.
new_file_id(files) == Len(files) - 1

\* Storage::add_new_file as one call: the storage after it and the id returned.
add_new_file(st, content) ==
    LET pushed == [tree |-> Tree_append(st.tree, hash_content(content)),
                   files |-> Append(st.files, content)]
    IN [storage |-> pushed, id |-> new_file_id(pushed.files)]

\* Storage::get_file_by_id: the content and the proof, None for an id with no
\* file.  proof_for's answer is unwrapped by expect.
get_file_by_id(st, id) ==
    IF id + 1 <= Len(st.files)
    THEN Some([content |-> st.files[id + 1], proof |-> Tree_proof_for(st.tree, id)[1]])
    ELSE None

root_hash(st) == Tree_root(st.tree)

\* ------------------------------------------------------------------ service.rs
Free == 0

\* lock_available with no waiting: the handler goes on whoever holds the mutex.
lock_available_always(m) == TRUE

\* storage.lock() returns once no other thread holds the mutex.
lock_available(m) == m = Free

\* ------------------------------------------------------------------ sha3.rs: text form
\* A string is a sequence of characters: 0..15 are the digits '0'..'9' and
\* 'a'..'f', 16..21 are 'A'..'F', any other value is a character that is no
\* hex digit.  Byte b of a digest is stored here as b - 1 (the marks are 0
\* and -1), so its value as a byte is the stored value plus one.

\* hex::encode: two lowercase digits per byte.
RECURSIVE hex_encode(_)
hex_encode(bytes) ==
    IF bytes = <<>> THEN <<>>
    ELSE <<(bytes[1] + 1) \div 16, (bytes[1] + 1) % 16>> \o hex_encode(Tail(bytes))

\* impl Display for Hash
Hash_to_string(hash) == hex_encode(hash)

\* The value of a hex digit of either case.
hex_val(c) == IF c <= 15 THEN c ELSE c - 6

\* The bytes of an even-length string of hex digits.
RECURSIVE hex_pairs(_)
hex_pairs(str) ==
    IF str = <<>> THEN <<>>
    ELSE <<16 * hex_val(str[1]) + hex_val(str[2]) - 1>> \o hex_pairs(SubSeq(str, 3, Len(str)))

\* hex::decode: an error for an odd length or a character that is no hex digit.
hex_decode(str) ==
    IF Len(str) % 2 # 0 \/ \E i \in 1..Len(str) : str[i] < 0 \/ str[i] > 21
    THEN [ok |-> FALSE, bytes |-> <<>>]
    ELSE [ok |-> TRUE, bytes |-> hex_pairs(str)]

\* The depth of open marks after the first k bytes.
RECURSIVE mark_depth(_, _)
mark_depth(bytes, k) ==
    IF k = 0 THEN 0
    ELSE mark_depth(bytes, k - 1)
         + (IF bytes[k] = 0 THEN 1 ELSE IF bytes[k] = 0 - 1 THEN 0 - 1 ELSE 0)

\* The bytes are those of one digest: what a slice of exactly 32 bytes is to
\* Output::<Sha3_256>::clone_from_slice.
is_digest_width(bytes) ==
    /\ bytes # <<>>
    /\ mark_depth(bytes, Len(bytes)) = 0
    /\ \A k \in 1..(Len(bytes) - 1) : mark_depth(bytes, k) > 0

\* impl FromStr for Hash: Err from hex::decode, a panic from clone_from_slice
\* for bytes of another width, the Hash otherwise.
Hash_from_str(str) ==
    LET d == hex_decode(str)
    IN IF ~d.ok THEN [kind |-> "Err", hash |-> <<>>]
       ELSE IF ~is_digest_width(d.bytes) THEN [kind |-> "Panic", hash |-> <<>>]
       ELSE [kind |-> "Ok", hash |-> d.bytes]

\* ------------------------------------------------------------------ cli.rs
\* serde's form of a NodeState: the tag and, but for Full, the text of the hash.
state_to_json(state) ==
    [tag |-> state.tag,
     left |-> IF state.tag = "Full" THEN <<>> ELSE Hash_to_string(state.left)]

\* store_state: the file content written for a LocalState.
store_state(state) ==
    [nodes |-> [k \in 1..Len(state.light_tree.nodes) |->
                   [hash |-> Hash_to_string(state.light_tree.nodes[k].hash),
                    state |-> state_to_json(state.light_tree.nodes[k].state)]]]

\* Every hash text of the file parses.
file_parses(file) ==
    \A k \in 1..Len(file.nodes) :
        /\ Hash_from_str(file.nodes[k].hash).kind = "Ok"
        /\ file.nodes[k].state.tag # "Full"
               => Hash_from_str(file.nodes[k].state.left).kind = "Ok"

\* load_state with the file ignored: every command starts from a new light
\* tree.
load_state_fresh(file) == Some([light_tree |-> LightTree_new])

\* load_state: the LocalState read back, None when the file is missing or
\* does not parse.
load_state(file) ==
    IF file = None \/ ~file_parses(file[1]) THEN None
    ELSE Some([light_tree |-> [nodes |-> [k \in 1..Len(file[1].nodes) |->
              [hash |-> Hash_from_str(file[1].nodes[k].hash).hash,
               state |-> IF file[1].nodes[k].state.tag = "Full" THEN Full
                         ELSE [tag |-> file[1].nodes[k].state.tag,
                               left |-> Hash_from_str(file[1].nodes[k].state.left).hash]]]]])

\* LightTree::append for each file of the batch in turn.
RECURSIVE append_files(_, _)
append_files(light, batch) ==
    IF batch = <<>> THEN light
    ELSE append_files(LightTree_append(light, hash_content(batch[1])).tree, Tail(batch))

\* upload_next_file with the state stored after every file.
upload_next_file_stores(light, file_state, content) ==
    LET r == LightTree_append(light, hash_content(content))
    IN [light_tree |-> r.tree, panicked |-> r.panicked,
        state_file |-> Some(store_state([light_tree |-> r.tree]))]

\* The loop body of upload_files once the file is read, up to the upload
\* request: the leaf goes to the light tree in memory, the state file is
\* left alone.
upload_next_file(light, file_state, content) ==
    LET r == LightTree_append(light, hash_content(content))
    IN [light_tree |-> r.tree, panicked |-> r.panicked, state_file |-> file_state]

\* download_file with the file written before the proof is checked.
download_file_write_first(root, file, target) ==
    IF root = None THEN [outcome |-> "panicked", target |-> target]
    ELSE IF ~Proof_verify([nodes |-> file.proof], root[1], hash_content(file.content))
    THEN [outcome |-> "verification_failed", target |-> Some(file.content)]
    ELSE [outcome |-> "saved", target |-> Some(file.content)]

\* download_file from the response on: the outcome of the command and the
\* content of the target path after it.
download_file(root, file, target) ==
    IF root = None THEN [outcome |-> "panicked", target |-> target]
    ELSE IF ~Proof_verify([nodes |-> file.proof], root[1], hash_content(file.content))
    THEN [outcome |-> "verification_failed", target |-> target]
    ELSE [outcome |-> "saved", target |-> Some(file.content)]

\* ------------------------------------------------------------------ state
VARIABLES
    tree,        \* a merkle::Tree
    light_tree,  \* a merkle::LightTree fed the same leaves
    panicked,    \* an assert! of LightTree::append failed
    proof,       \* the answer of the last Tree::proof_for call on this tree
    other_tree,  \* a second merkle::Tree, fed leaves of its own
    storage,     \* the server's Storage, shared by the handlers
    mutex,       \* the Mutex around it: Free or the worker holding it
    workers,     \* per server worker thread: the request it handles and where it is
    lock_order,  \* history: the uploaded contents in the order the uploads took the lock
    issued,      \* history: the ids add_new_file returned, in order
    state_file,  \* the client's state file: None or Some(content)
    uploaded,    \* history: the contents the client uploaded, in order
    cli,         \* the client command under way
    disk,        \* the content of the path the download command saves to
    parse,       \* the last Hash::from_str call: its input and its outcome
    frame,       \* the update_next_layer call under way in tree.append
    trace,       \* history: what the append under way did to each level it touched
    upload       \* the upload command under way, statement by statement

core_vars == <<tree, light_tree, panicked, proof>>
server_vars == <<storage, mutex, workers, lock_order, issued>>
cli_vars == <<state_file, uploaded, cli, disk>>
text_vars == <<parse>>
step_vars == <<frame, trace>>
upload_vars == <<upload>>
vars == <<tree, light_tree, panicked, proof, other_tree,
          storage, mutex, workers, lock_order, issued,
          state_file, uploaded, cli, disk, parse, frame, trace, upload>>

NoCommand == [pc |-> "none", id |-> 0, root |-> None, content |-> <<>>, proof |-> <<>>]

Workers == 1..NumWorkers

Idle == [pc |-> "idle", kind |-> "none", content |-> <<>>, id |-> 0, seen |-> 0,
         status |-> "none", proof |-> <<>>, hash |-> None, leaves_after |-> 0]

NoCall == [called |-> FALSE, index |-> 0, result |-> None]

\* No Hash::from_str call made yet.
NoParse == [called |-> FALSE, input |-> <<>>, kind |-> "none", hash |-> <<>>]

\* No upload command under way.  batch is the file list of the command,
\* files the part of it not yet uploaded, light_tree the tree in memory,
\* before the state file as the command found it, accepted the number of
\* files of the batch the server stored.
NoUpload == [pc |-> "none", batch |-> <<>>, files |-> <<>>, light_tree |-> LightTree_new,
             before |-> None, accepted |-> 0]

\* No update_next_layer call under way.
NoFrame == [pc |-> "returned", layer |-> 0, hash |-> <<>>, update_last_hash |-> FALSE]

Init ==
    /\ tree = Tree_new
    /\ light_tree = LightTree_new
    /\ panicked = FALSE
    /\ proof = NoCall
    /\ other_tree = Tree_new
    /\ storage = Storage_new
    /\ mutex = Free
    /\ workers = [w \in Workers |-> Idle]
    /\ lock_order = <<>>
    /\ issued = <<>>
    /\ state_file = Some(store_state([light_tree |-> LightTree_new]))
    /\ uploaded = <<>>
    /\ cli = NoCommand
    /\ disk = None
    /\ parse = NoParse
    /\ frame = NoFrame
    /\ trace = <<>>
    /\ upload = NoUpload

\* One round of the loop of test_lightweight_tree_proof: the same leaf goes
\* to both trees.
AppendLeaf(content) ==
    /\ ~panicked
    /\ Len(tree.leaves) < MaxLeaves
    /\ LET r == LightTree_append(light_tree, hash_content(content))
       IN /\ tree' = Tree_append(tree, hash_content(content))
          /\ light_tree' = r.tree
          /\ panicked' = r.panicked
    /\ UNCHANGED <<proof, other_tree>>
    /\ UNCHANGED <<server_vars, cli_vars>>
    /\ UNCHANGED <<text_vars, step_vars, upload_vars>>

Next == \E content \in Contents : AppendLeaf(content)

Spec == Init /\ [][Next]_vars

\* ------------------------------------------------------------------ proofs
\* tree.append(hash_content(content)); a proof taken before is dropped.
ProofAppend(content) ==
    /\ Len(tree.leaves) < MaxProofLeaves
    /\ tree' = Tree_append(tree, hash_content(content))
    /\ proof' = NoCall
    /\ UNCHANGED <<light_tree, panicked, other_tree>>
    /\ UNCHANGED <<server_vars, cli_vars>>
    /\ UNCHANGED <<text_vars, step_vars, upload_vars>>

\* tree.proof_for(index), for an index in the tree or up to two past its end.
ProofFor(index) ==
    /\ proof' = [called |-> TRUE, index |-> index, result |-> Tree_proof_for(tree, index)]
    /\ UNCHANGED <<tree, light_tree, panicked, other_tree>>
    /\ UNCHANGED <<server_vars, cli_vars>>
    /\ UNCHANGED <<text_vars, step_vars, upload_vars>>

ProofNext ==
    \/ \E content \in Contents : ProofAppend(content)
    \/ \E index \in 0..(Len(tree.leaves) + 1) : ProofFor(index)

SpecProof == Init /\ [][ProofNext]_vars

\* ------------------------------------------------------------------ two trees
\* tree.append(hash_content(content)) on the first of two separate trees.
PairAppendFirst(content) ==
    /\ Len(tree.leaves) < MaxPairLeaves
    /\ tree' = Tree_append(tree, hash_content(content))
    /\ UNCHANGED <<light_tree, panicked, proof, other_tree>>
    /\ UNCHANGED <<server_vars, cli_vars>>
    /\ UNCHANGED <<text_vars, step_vars, upload_vars>>

\* other_tree.append(hash_content(content)).
PairAppendSecond(content) ==
    /\ Len(other_tree.leaves) < MaxPairLeaves
    /\ other_tree' = Tree_append(other_tree, hash_content(content))
    /\ UNCHANGED core_vars
    /\ UNCHANGED <<server_vars, cli_vars>>
    /\ UNCHANGED <<text_vars, step_vars, upload_vars>>

PairNext ==
    \/ \E content \in Contents : PairAppendFirst(content)
    \/ \E content \in Contents : PairAppendSecond(content)

SpecPair == Init /\ [][PairNext]_vars

\* ------------------------------------------------------------------ server
\* upload_new_file, up to the lock: a worker takes a POST /files request and
\* gets the mutex.
UploadLock(w, content) ==
    /\ workers[w].pc = "idle"
    /\ Len(lock_order) < MaxUploads
    /\ lock_available(mutex)
    /\ mutex' = w
    /\ lock_order' = Append(lock_order, content)
    /\ workers' = [workers EXCEPT ![w] = [Idle EXCEPT !.pc = "locked", !.kind = "upload",
                                                      !.content = content,
                                                      !.seen = Len(lock_order) + 1]]
    /\ UNCHANGED <<storage, issued, core_vars, other_tree, cli_vars>>
    /\ UNCHANGED <<text_vars, step_vars, upload_vars>>

\* add_new_file, first half of self.tree.append: the leaf is pushed.
UploadPushLeaf(w) ==
    /\ workers[w].pc = "locked"
    /\ storage' = [storage EXCEPT !.tree = Tree_push_leaf(@, hash_content(workers[w].content))]
    /\ workers' = [workers EXCEPT ![w].pc = "leaf_pushed"]
    /\ UNCHANGED <<mutex, lock_order, issued, core_vars, other_tree, cli_vars>>
    /\ UNCHANGED <<text_vars, step_vars, upload_vars>>

\* add_new_file, second half of self.tree.append: the layers are updated.
UploadUpdateLayers(w) ==
    /\ workers[w].pc = "leaf_pushed"
    /\ storage' = [storage EXCEPT !.tree = Tree_update_layers(@)]
    /\ workers' = [workers EXCEPT ![w].pc = "layers_updated"]
    /\ UNCHANGED <<mutex, lock_order, issued, core_vars, other_tree, cli_vars>>
    /\ UNCHANGED <<text_vars, step_vars, upload_vars>>

\* add_new_file, the rest: the file is pushed and its id returned; the guard
\* is dropped at the end of the statement.
UploadPushFile(w) ==
    /\ workers[w].pc = "layers_updated"
    /\ LET files == Append(storage.files, workers[w].content)
           id == new_file_id(files)
       IN /\ storage' = [storage EXCEPT !.files = files]
          /\ issued' = Append(issued, id)
          /\ workers' = [workers EXCEPT ![w].pc = "responding", ![w].status = "Created",
                                        ![w].id = id,
                                        ![w].leaves_after = Len(storage.tree.leaves)]
    /\ mutex' = Free
    /\ UNCHANGED <<lock_order, core_vars, other_tree, cli_vars>>
    /\ UNCHANGED <<text_vars, step_vars, upload_vars>>

\* get_file_content: lock, get_file_by_id, unlock.
Download(w, id) ==
    /\ workers[w].pc = "idle"
    /\ lock_available(mutex)
    /\ LET content == get_file_by_id(storage, id)
       IN workers' = [workers EXCEPT ![w] =
              IF content = None
              THEN [Idle EXCEPT !.pc = "responding", !.kind = "download", !.id = id,
                                !.seen = Len(lock_order), !.status = "NotFound"]
              ELSE [Idle EXCEPT !.pc = "responding", !.kind = "download", !.id = id,
                                !.seen = Len(lock_order), !.status = "Ok",
                                !.content = content[1].content,
                                !.proof = content[1].proof.nodes]]
    /\ UNCHANGED <<storage, mutex, lock_order, issued, core_vars, other_tree, cli_vars>>
    /\ UNCHANGED <<text_vars, step_vars, upload_vars>>

\* get_tree_root: lock, root_hash, unlock.
GetRoot(w) ==
    /\ workers[w].pc = "idle"
    /\ lock_available(mutex)
    /\ LET maybe_root == root_hash(storage)
       IN workers' = [workers EXCEPT ![w] =
              [Idle EXCEPT !.pc = "responding", !.kind = "root", !.seen = Len(lock_order),
                           !.status = IF maybe_root = None THEN "NotFound" ELSE "Ok",
                           !.hash = maybe_root]]
    /\ UNCHANGED <<storage, mutex, lock_order, issued, core_vars, other_tree, cli_vars>>
    /\ UNCHANGED <<text_vars, step_vars, upload_vars>>

\* The response leaves the server.
Respond(w) ==
    /\ workers[w].pc = "responding"
    /\ workers' = [workers EXCEPT ![w] = Idle]
    /\ UNCHANGED <<storage, mutex, lock_order, issued, core_vars, other_tree, cli_vars>>
    /\ UNCHANGED <<text_vars, step_vars, upload_vars>>

ServerNext ==
    \/ \E w \in Workers : \E content \in Contents : UploadLock(w, content)
    \/ \E w \in Workers : UploadPushLeaf(w)
    \/ \E w \in Workers : UploadUpdateLayers(w)
    \/ \E w \in Workers : UploadPushFile(w)
    \/ \E w \in Workers : \E id \in 0..MaxUploads : Download(w, id)
    \/ \E w \in Workers : GetRoot(w)
    \/ \E w \in Workers : Respond(w)

SpecServer == Init /\ [][ServerNext]_vars

\* ------------------------------------------------------------------ client
\* The storage of a server that stored the contents in order.
RECURSIVE storage_of(_)
storage_of(contents) ==
    IF contents = <<>> THEN Storage_new
    ELSE add_new_file(storage_of(SubSeq(contents, 1, Len(contents) - 1)),
                      contents[Len(contents)]).storage

\* The tree a server holds that stored the client's uploads in order.
tree_of(contents) == storage_of(contents).tree

\* The two hashes a node of the list above is the digest of, laid end to end.
PairsOf(hash_list) ==
    {hash_list[i] \o hash_list[IF i + 1 <= Len(hash_list) THEN i + 1 ELSE i] :
        i \in {j \in 1..Len(hash_list) : j % 2 = 1}}

\* What an untrusted server may send as the content: any file content, or
\* the 64 bytes a node of the tree is the digest of.
ServerContents ==
    LET t == tree_of(uploaded)
    IN Contents \cup PairsOf(t.leaves)
       \cup UNION {PairsOf(t.nodes[l]) : l \in 1..Len(t.nodes)}

\* What it may send as the proof: the proof of any leaf, or such a proof
\* without its first entries, or no entries.
ServerProofs ==
    LET t == tree_of(uploaded)
    IN {<<>>} \cup UNION {
          LET nodes == Tree_proof_for(t, j)[1].nodes
          IN {SubSeq(nodes, k, Len(nodes)) : k \in 1..(Len(nodes) + 1)}
          : j \in 0..(Len(uploaded) - 1)}

Batches == UNION {[1..n -> Contents] : n \in 1..MaxBatch}

\* upload_files for a batch where every read, upload and the root fetch
\* succeed: the leaves of the batch are appended to the loaded light tree and
\* the state is stored.
UploadFiles(batch) ==
    /\ cli.pc = "none"
    /\ Len(uploaded) + Len(batch) <= MaxCliFiles
    /\ load_state(state_file) # None
    /\ state_file' = Some(store_state(
           [light_tree |-> append_files(load_state(state_file)[1].light_tree, batch)]))
    /\ uploaded' = uploaded \o batch
    /\ UNCHANGED <<cli, disk, core_vars, other_tree, server_vars>>
    /\ UNCHANGED <<text_vars, step_vars, upload_vars>>

\* download_file up to the response: the state is loaded and the server
\* answers the request for id with a content and a proof of its choice.
DownloadReceive(id, content, nodes) ==
    /\ cli.pc = "none"
    /\ load_state(state_file) # None
    /\ cli' = [pc |-> "received", id |-> id,
               root |-> LightTree_root(load_state(state_file)[1].light_tree),
               content |-> content, proof |-> nodes]
    /\ UNCHANGED <<state_file, uploaded, disk, core_vars, other_tree, server_vars>>
    /\ UNCHANGED <<text_vars, step_vars, upload_vars>>

\* download_file from the response on: the proof is verified against the
\* root of the loaded light tree and the content written, or the command fails.
DownloadFinish ==
    /\ cli.pc = "received"
    /\ LET r == download_file(cli.root, [content |-> cli.content, proof |-> cli.proof], disk)
       IN /\ cli' = [cli EXCEPT !.pc = r.outcome]
          /\ disk' = r.target
    /\ UNCHANGED <<state_file, uploaded, core_vars, other_tree, server_vars>>
    /\ UNCHANGED <<text_vars, step_vars, upload_vars>>

\* download_file when client.download_file(id) returns an error: the server
\* answers with an error status or with a body that does not parse.
DownloadRequestFails(id) ==
    /\ cli.pc = "none"
    /\ load_state(state_file) # None
    /\ cli' = [NoCommand EXCEPT !.pc = "request_failed", !.id = id,
                                !.root = LightTree_root(load_state(state_file)[1].light_tree)]
    /\ UNCHANGED <<state_file, uploaded, disk, core_vars, other_tree, server_vars>>
    /\ UNCHANGED <<text_vars, step_vars, upload_vars>>

\* The command ends.
CommandExit ==
    /\ cli.pc \in {"saved", "verification_failed", "panicked", "request_failed"}
    /\ cli' = NoCommand
    /\ UNCHANGED <<state_file, uploaded, disk, core_vars, other_tree, server_vars>>
    /\ UNCHANGED <<text_vars, step_vars, upload_vars>>

CliNext ==
    \/ \E batch \in Batches : UploadFiles(batch)
    \/ \E id \in 0..MaxCliFiles : \E content \in ServerContents :
          \E nodes \in ServerProofs : DownloadReceive(id, content, nodes)
    \/ \E id \in 0..MaxCliFiles : DownloadRequestFails(id)
    \/ DownloadFinish
    \/ CommandExit

SpecCli == Init /\ [][CliNext]_vars

\* ------------------------------------------------------------------ client and server
\* Storage::add_new_file for each file of the batch in turn: the server's side
\* of the uploads of one command.
RECURSIVE add_new_files(_, _)
add_new_files(st, batch) ==
    IF batch = <<>> THEN st
    ELSE add_new_files(add_new_file(st, batch[1]).storage, Tail(batch))

\* upload_files with the server behind it, this client the only uploader:
\* the state is loaded, every file of the batch is appended to the light
\* tree and stored by the server, and the state is stored.  light_tree is a
\* light tree kept in memory over all the commands and given the same appends.
PersistUpload(batch) ==
    /\ cli.pc = "none"
    /\ Len(uploaded) + Len(batch) <= MaxPersistFiles
    /\ load_state(state_file) # None
    /\ state_file' = Some(store_state(
           [light_tree |-> append_files(load_state(state_file)[1].light_tree, batch)]))
    /\ uploaded' = uploaded \o batch
    /\ storage' = add_new_files(storage, batch)
    /\ light_tree' = append_files(light_tree, batch)
    /\ UNCHANGED <<tree, panicked, proof, other_tree, mutex, workers, lock_order, issued,
                   cli, disk>>
    /\ UNCHANGED <<text_vars, step_vars, upload_vars>>

PersistNext == \E batch \in Batches : PersistUpload(batch)

SpecPersist == Init /\ [][PersistNext]_vars

\* ------------------------------------------------------------------ parsing
\* The characters the strings are made of: '0', '1', 'a', 'A' and 'g'.
Chars == {0, 1, 10, 16, 22}

\* The strings handed to Hash::from_str.
Texts == UNION {[1..n -> Chars] : n \in 0..MaxTextLen}

\* Hash::from_str(str), once.
ParseHash(str) ==
    /\ ~parse.called
    /\ LET r == Hash_from_str(str)
       IN parse' = [called |-> TRUE, input |-> str, kind |-> r.kind, hash |-> r.hash]
    /\ UNCHANGED <<core_vars, other_tree, server_vars, cli_vars, step_vars, upload_vars>>

ParseNext == \E str \in Texts : ParseHash(str)

SpecParse == Init /\ [][ParseNext]_vars

\* ------------------------------------------------------------------ append, call by call
\* Tree::append up to the call of update_next_layer: the leaf is pushed and
\* the parent of the last leaf pair computed.  trace starts over with what
\* was done to level 0, the leaves.
StepAppend(content) ==
    /\ frame.pc = "returned"
    /\ Len(tree.leaves) < MaxStepLeaves
    /\ LET pushed == Tree_push_leaf(tree, hash_content(content))
           s == hash_of_siblings(pushed.leaves)
       IN /\ tree' = pushed
          /\ frame' = [pc |-> "called", layer |-> 0, hash |-> s.hash,
                       update_last_hash |-> s.right_child_added]
          /\ trace' = <<[level |-> 0, existed |-> TRUE, was |-> Len(tree.leaves),
                         len |-> Len(pushed.leaves), above |-> tree.nodes # <<>>]>>
    /\ UNCHANGED <<light_tree, panicked, proof, other_tree>>
    /\ UNCHANGED <<server_vars, cli_vars, text_vars, upload_vars>>

\* One activation of update_next_layer: it returns or calls itself on the
\* next layer.  Layer l of the code is level l + 1.
StepUpdateLayer ==
    /\ frame.pc = "called"
    /\ LET r == update_layer(tree.nodes, frame.layer, frame.hash, frame.update_last_hash)
           existed == frame.layer + 1 <= Len(tree.nodes)
       IN /\ tree' = [tree EXCEPT !.nodes = r.nodes]
          /\ frame' = IF r.calls
                      THEN [pc |-> "called", layer |-> frame.layer + 1, hash |-> r.hash,
                            update_last_hash |-> r.update_last_hash]
                      ELSE NoFrame
          /\ trace' = Append(trace,
                 [level |-> frame.layer + 1, existed |-> existed,
                  was |-> IF existed THEN Len(tree.nodes[frame.layer + 1]) ELSE 0,
                  len |-> Len(r.nodes[frame.layer + 1]),
                  above |-> frame.layer + 2 <= Len(tree.nodes)])
    /\ UNCHANGED <<light_tree, panicked, proof, other_tree>>
    /\ UNCHANGED <<server_vars, cli_vars, text_vars, upload_vars>>

StepsNext ==
    \/ \E content \in Contents : StepAppend(content)
    \/ StepUpdateLayer

SpecSteps == Init /\ [][StepsNext]_vars

\* ------------------------------------------------------------------ upload, statement by statement
\* upload_files up to the loop: the state is loaded; an empty file list ends
\* the command at once.
UploadBegin(batch) ==
    /\ upload.pc = "none"
    /\ Len(storage.files) + Len(batch) <= MaxUploadFiles
    /\ load_state(state_file) # None
    /\ upload' = [pc |-> IF batch = <<>> THEN "nothing" ELSE "reading",
                  batch |-> batch, files |-> batch,
                  light_tree |-> load_state(state_file)[1].light_tree,
                  before |-> state_file, accepted |-> 0]
    /\ UNCHANGED <<state_file, uploaded, cli, disk, core_vars, other_tree, server_vars>>
    /\ UNCHANGED <<text_vars, step_vars>>

\* tokio::fs::read of the next file fails.
UploadReadFails ==
    /\ upload.pc = "reading"
    /\ upload' = [upload EXCEPT !.pc = "failed"]
    /\ UNCHANGED <<state_file, uploaded, cli, disk, core_vars, other_tree, server_vars>>
    /\ UNCHANGED <<text_vars, step_vars>>

\* The next file is read and its digest appended to the light tree.
UploadAppend ==
    /\ upload.pc = "reading"
    /\ LET r == upload_next_file(upload.light_tree, state_file, upload.files[1])
       IN /\ upload' = [upload EXCEPT !.pc = IF r.panicked THEN "panicked" ELSE "uploading",
                                      !.light_tree = r.light_tree]
          /\ state_file' = r.state_file
    /\ UNCHANGED <<uploaded, cli, disk, core_vars, other_tree, server_vars>>
    /\ UNCHANGED <<text_vars, step_vars>>

\* client.upload_new_file succeeds: the server stored the file.
UploadAccepted ==
    /\ upload.pc = "uploading"
    /\ storage' = add_new_file(storage, upload.files[1]).storage
    /\ upload' = [upload EXCEPT !.pc = IF Tail(upload.files) = <<>> THEN "fetching"
                                       ELSE "reading",
                                !.files = Tail(upload.files),
                                !.accepted = upload.accepted + 1]
    /\ UNCHANGED <<mutex, workers, lock_order, issued>>
    /\ UNCHANGED <<state_file, uploaded, cli, disk, core_vars, other_tree>>
    /\ UNCHANGED <<text_vars, step_vars>>

\* client.upload_new_file fails, before the server stored the file or after
\* it did and the response was lost.
UploadRequestFails(stored) ==
    /\ upload.pc = "uploading"
    /\ storage' = IF stored THEN add_new_file(storage, upload.files[1]).storage ELSE storage
    /\ upload' = [upload EXCEPT !.pc = "failed"]
    /\ UNCHANGED <<mutex, workers, lock_order, issued>>
    /\ UNCHANGED <<state_file, uploaded, cli, disk, core_vars, other_tree>>
    /\ UNCHANGED <<text_vars, step_vars>>

\* client.fetch_root fails.
UploadRootFetchFails ==
    /\ upload.pc = "fetching"
    /\ upload' = [upload EXCEPT !.pc = "failed"]
    /\ UNCHANGED <<state_file, uploaded, cli, disk, core_vars, other_tree, server_vars>>
    /\ UNCHANGED <<text_vars, step_vars>>

\* client.fetch_root succeeds, the two roots are printed and the state is
\* stored.
UploadFinish ==
    /\ upload.pc = "fetching"
    /\ state_file' = Some(store_state([light_tree |-> upload.light_tree]))
    /\ upload' = [upload EXCEPT !.pc = "done"]
    /\ UNCHANGED <<uploaded, cli, disk, core_vars, other_tree, server_vars>>
    /\ UNCHANGED <<text_vars, step_vars>>

\* The command ends.
UploadExit ==
    /\ upload.pc \in {"nothing", "done", "failed", "panicked"}
    /\ upload' = NoUpload
    /\ UNCHANGED <<state_file, uploaded, cli, disk, core_vars, other_tree, server_vars>>
    /\ UNCHANGED <<text_vars, step_vars>>

UploadNext ==
    \/ \E batch \in Batches \cup {<<>>} : UploadBegin(batch)
    \/ UploadReadFails
    \/ UploadAppend
    \/ UploadAccepted
    \/ \E stored \in BOOLEAN : UploadRequestFails(stored)
    \/ UploadRootFetchFails
    \/ UploadFinish
    \/ UploadExit

SpecUpload == Init /\ [][UploadNext]_vars

\* ------------------------------------------------------------------ reference definitions
\* One round of the batch construction: the combines of adjacent pairs, an
\* unpaired last element paired with itself.
RECURSIVE PairUp(_)
PairUp(list) ==
    IF list = <<>> THEN <<>>
    ELSE IF Len(list) = 1 THEN <<hash_of(list[1], list[1])>>
    ELSE <<hash_of(list[1], list[2])>> \o PairUp(SubSeq(list, 3, Len(list)))

RECURSIVE Reduce(_)
Reduce(list) == IF Len(list) = 1 THEN list[1] ELSE Reduce(PairUp(list))

\* The root of the batch construction over a non-empty leaf list: at least
\* one round, then rounds until one value remains.
BatchRoot(leaves) == Reduce(PairUp(leaves))

H2(a, b) == hash_of(a, b)

\* The value of a digest under the additive digest of the tests (impl
\* Hash<i32> for i32: left + right), the leaf of content <<b>> standing for
\* the number b: the sum of the content bytes in the digest.
RECURSIVE ToyValue(_)
ToyValue(hash) ==
    IF hash = <<>> THEN 0
    ELSE (IF hash[1] > 0 THEN hash[1] ELSE 0) + ToyValue(Tail(hash))

\* Level k of a tree: level 0 is the leaves, level k is nodes[k - 1] of the
\* code.
Level(t, k) == IF k = 0 THEN t.leaves ELSE t.nodes[k]

\* The parent of position p (zero-based) of a level: the combine of the
\* children at 2p and 2p + 1, the child at 2p paired with itself when it is
\* the last of the level.
ParentAt(level, p) ==
    IF 2 * p + 1 < Len(level) THEN hash_of(level[2 * p + 1], level[2 * p + 2])
    ELSE hash_of(level[2 * p + 1], level[2 * p + 1])

\* ceil(n / 2)
HalfUp(n) == (n + 1) \div 2

\* The tree Tree::append builds from the leaves, one call per leaf.
RECURSIVE tree_of_leaves(_)
tree_of_leaves(leaves) ==
    IF leaves = <<>> THEN Tree_new
    ELSE Tree_append(tree_of_leaves(SubSeq(leaves, 1, Len(leaves) - 1)), leaves[Len(leaves)])

\* No append is under way, and the appends made call by call left the tree
\* the whole calls leave.
AppendDone == frame.pc = "returned" /\ tree = tree_of_leaves(tree.leaves)

\* What the append under way did to a level it touched: made it, added an
\* entry to it, or put a new value in its last entry.
Created(e) == ~e.existed
Pushed(e) == e.existed /\ e.len = e.was + 1
Overwrote(e) == e.existed /\ e.len = e.was

\* The position on level k of the ancestor of leaf i: i halved k times.
RECURSIVE IndexAt(_, _)
IndexAt(i, k) == IF k = 0 THEN i ELSE IndexAt(i, k - 1) \div 2

\* The proof entry of position idx (zero-based) of a level.
EntryAt(level, idx) ==
    IF idx % 2 = 0 /\ idx + 1 < Len(level) THEN RightSiblign(level[idx + 2])
    ELSE IF idx % 2 = 1 THEN LeftSibling(level[idx])
    ELSE ProofNone

\* 2^k
RECURSIVE Pow2(_)
Pow2(k) == IF k = 0 THEN 1 ELSE 2 * Pow2(k - 1)

\* ceil(log2 n) for n >= 1: the least k with n <= 2^k.
CeilLog2(n) == CHOOSE k \in 0..n : n <= Pow2(k) /\ \A j \in 0..(k - 1) : n > Pow2(j)

\* n is 2^k for a k >= 1.
IsPow2(n) == \E k \in 1..n : n = Pow2(k)

\* The hash accumulated by verify below entry k of the proof.
AccBelow(nodes, k, leaf) == fold_proof(SubSeq(nodes, 1, k - 1), 1, leaf)

\* Every digest the tree holds, and the digest of every content.
KnownDigests ==
    {tree.leaves[i] : i \in 1..Len(tree.leaves)}
    \cup UNION {{tree.nodes[l][i] : i \in 1..Len(tree.nodes[l])} : l \in 1..Len(tree.nodes)}
    \cup {hash_content(c) : c \in Contents}

\* Every proof entry over the known digests.
KnownEntries ==
    {ProofNone} \cup {RightSiblign(d) : d \in KnownDigests} \cup {LeftSibling(d) : d \in KnownDigests}

\* A proof was asked for a leaf of the tree.
ProofInRange == proof.called /\ proof.index < Len(tree.leaves)

\* ------------------------------------------------------------------ claims
\* C1: after every prefix of the appends, the empty one included, the full
\* tree and the light tree fed the same leaves have the same root.
C1_RootEquivalence == Tree_root(tree) = LightTree_root(light_tree)

C1_Witness ==
    /\ Len(tree.leaves) = 5
    /\ \E k \in 1..Len(light_tree.nodes) : light_tree.nodes[k].state.tag = "PartialLeft"
    /\ \E k \in 1..Len(light_tree.nodes) : light_tree.nodes[k].state.tag = "PartialRight"
    /\ Len(light_tree.nodes) = 3
    /\ Tree_root(tree) # None
    /\ Tree_root(tree) = LightTree_root(light_tree)
    /\ tree.leaves[4] # tree.leaves[5]

\* C2: the proof proof_for gives for a leaf of the tree verifies against the
\* root of that tree and that leaf.
C2_ProofSoundness ==
    ProofInRange =>
        /\ proof.result # None
        /\ Proof_verify(proof.result[1], Tree_root(tree)[1], tree.leaves[proof.index + 1])

C2_Witness ==
    /\ ProofInRange
    /\ Len(tree.leaves) = 5
    /\ proof.index = 4
    /\ proof.result # None
    /\ Len(proof.result[1].nodes) = 3
    /\ proof.result[1].nodes[1] = ProofNone
    /\ proof.result[1].nodes[3].kind = "LeftSibling"
    /\ Proof_verify(proof.result[1], Tree_root(tree)[1], tree.leaves[5])

\* C3: the root after appending the leaves one at a time is the root of the
\* batch construction over them; a single leaf h gives combine(h, h), two
\* leaves give their combine, five leaves give the shape of
\* test_root_of_multiple_items.  Under the additive digest the root of one
\* leaf is twice the leaf ([1] gives 2), of two leaves their sum ([1, 2]
\* gives 3), of five leaves the first four plus four times the fifth
\* (1 + 20 + 300 + 4000 + 4 * 50000 = 204321), of eight leaves their sum
\* (87654321).
C3_RootIsBatchRoot ==
    LET l == tree.leaves
    IN Len(l) >= 1 =>
        /\ Tree_root(tree) = Some(BatchRoot(l))
        /\ Len(l) = 1 => Tree_root(tree) = Some(H2(l[1], l[1]))
        /\ Len(l) = 2 => Tree_root(tree) = Some(H2(l[1], l[2]))
        /\ Len(l) = 5 =>
              Tree_root(tree) = Some(H2(H2(H2(l[1], l[2]), H2(l[3], l[4])),
                                        H2(H2(l[5], l[5]), H2(l[5], l[5]))))
        /\ LET v == [i \in 1..Len(l) |-> ToyValue(l[i])]
               root == ToyValue(Tree_root(tree)[1])
           IN /\ Len(l) = 1 => root = 2 * v[1]
              /\ Len(l) = 2 => root = v[1] + v[2]
              /\ Len(l) = 5 => root = v[1] + v[2] + v[3] + v[4] + 4 * v[5]
              /\ Len(l) = 8 => root = v[1] + v[2] + v[3] + v[4] + v[5] + v[6] + v[7] + v[8]
              /\ l = <<hash_content(<<1>>)>> => root = 2
              /\ l = <<hash_content(<<1>>), hash_content(<<2>>)>> => root = 3

C3_Witness ==
    /\ Len(tree.leaves) = 9
    /\ tree.leaves[7] # tree.leaves[8]
    /\ tree.leaves[8] # tree.leaves[9]
    /\ Len(tree.nodes) = 4
    /\ Tree_root(tree) = Some(BatchRoot(tree.leaves))

\* The proof with entry k replaced.
Mutated(p, k, entry) == [nodes |-> [p.nodes EXCEPT ![k] = entry]]

\* C5 as claimed: no proof that differs from the proof of a leaf in one entry
\* verifies, and the proof of a leaf verifies for no other leaf digest.
C5_TamperingAlwaysDetected ==
    ProofInRange =>
        LET p == proof.result[1]
            root == Tree_root(tree)[1]
            leaf == tree.leaves[proof.index + 1]
        IN /\ \A k \in 1..Len(p.nodes) : \A e \in KnownEntries \ {p.nodes[k]} :
                  ~Proof_verify(Mutated(p, k, e), root, leaf)
           /\ \A d \in KnownDigests \ {leaf} : ~Proof_verify(p, root, d)

\* The replaced entry combines the same two hashes as the entry it replaces:
\* the variant differs and every sibling digest involved is the hash
\* accumulated below the entry.
SameFold(old, new, acc) ==
    /\ old.kind # new.kind
    /\ old.kind = "None" \/ old.hash = acc
    /\ new.kind = "None" \/ new.hash = acc

\* C5 amended: a changed sibling digest and a changed leaf digest are always
\* rejected; a changed side or variant is rejected unless the sibling digests
\* involved equal the hash accumulated below that entry, and is accepted then.
C5_TamperingDetectedUnlessSameFold ==
    ProofInRange =>
        LET p == proof.result[1]
            root == Tree_root(tree)[1]
            leaf == tree.leaves[proof.index + 1]
        IN /\ \A k \in 1..Len(p.nodes) : \A e \in KnownEntries \ {p.nodes[k]} :
                  Proof_verify(Mutated(p, k, e), root, leaf)
                      <=> SameFold(p.nodes[k], e, AccBelow(p.nodes, k, leaf))
           /\ \A d \in KnownDigests \ {leaf} : ~Proof_verify(p, root, d)

C5_Witness ==
    /\ ProofInRange
    /\ Len(tree.leaves) = 3
    /\ proof.index = 0
    /\ tree.leaves[1] = tree.leaves[2]
    /\ tree.leaves[3] # tree.leaves[1]
    /\ LET p == proof.result[1]
           root == Tree_root(tree)[1]
       IN /\ Len(p.nodes) = 2
          /\ p.nodes[1] = RightSiblign(tree.leaves[2])
          /\ Proof_verify(Mutated(p, 1, LeftSibling(tree.leaves[2])), root, tree.leaves[1])
          /\ ~Proof_verify(Mutated(p, 1, RightSiblign(tree.leaves[3])), root, tree.leaves[1])
          /\ ~Proof_verify(Mutated(p, 2, LeftSibling(p.nodes[2].hash)), root, tree.leaves[1])
          /\ ~Proof_verify(p, root, tree.leaves[3])

\* C7 as claimed: proof_for gives None exactly for an index at or past the
\* number of leaves.
C7_ProofForNoneIffOutOfRange ==
    proof.called => (proof.result = None <=> proof.index >= Len(tree.leaves))

\* C6 as claimed: two trees fed different leaf sequences have different roots.
C6_RootCommitsToSequence ==
    tree.leaves # other_tree.leaves => Tree_root(tree) # Tree_root(other_tree)

\* C6 amended: two trees fed different leaf sequences of the same length have
\* different roots.
C6_RootCommitsToSequenceOfSameLength ==
    (Len(tree.leaves) = Len(other_tree.leaves) /\ tree.leaves # other_tree.leaves)
        => Tree_root(tree) # Tree_root(other_tree)

C6_Witness ==
    /\ Len(tree.leaves) = 3
    /\ Len(other_tree.leaves) = 3
    /\ SubSeq(tree.leaves, 1, 2) = SubSeq(other_tree.leaves, 1, 2)
    /\ tree.leaves[3] # other_tree.leaves[3]
    /\ Tree_root(tree) # None
    /\ Tree_root(tree) # Tree_root(other_tree)

\* The digests of the first k uploads in lock order.
RECURSIVE Digests(_)
Digests(contents) ==
    IF contents = <<>> THEN <<>>
    ELSE <<hash_content(contents[1])>> \o Digests(Tail(contents))

\* The root over the first k uploads in lock order.
RootOfPrefix(k) ==
    IF k = 0 THEN None ELSE Some(BatchRoot(Digests(SubSeq(lock_order, 1, k))))

\* C9: every response is the one the storage holding exactly the uploads that
\* took the lock before the request gives: a root response carries the root
\* of that prefix, a download response the content of that id and a proof
\* that verifies against the root of that prefix, and an id not yet uploaded
\* is not found.
C9_RequestsSeeAtomicStorage ==
    \A w \in Workers :
        LET r == workers[w]
        IN r.pc = "responding" =>
            /\ r.kind = "root" =>
                  /\ r.hash = RootOfPrefix(r.seen)
                  /\ r.status = (IF r.seen = 0 THEN "NotFound" ELSE "Ok")
            /\ (r.kind = "download" /\ r.id < r.seen) =>
                  /\ r.status = "Ok"
                  /\ r.content = lock_order[r.id + 1]
                  /\ Proof_verify([nodes |-> r.proof], RootOfPrefix(r.seen)[1],
                                  hash_content(r.content))
            /\ (r.kind = "download" /\ r.id >= r.seen) => r.status = "NotFound"
            /\ r.kind = "upload" => r.id = r.seen - 1

C9_Witness ==
    \E w1, w2 \in Workers :
        /\ workers[w1].pc = "responding"
        /\ workers[w1].kind = "download"
        /\ workers[w1].id = 0
        /\ workers[w1].status = "Ok"
        /\ workers[w1].seen = 1
        /\ workers[w1].proof = <<ProofNone>>
        /\ workers[w2].pc = "leaf_pushed"
        /\ workers[w2].kind = "upload"
        /\ mutex = w2
        /\ Len(lock_order) = 2
        /\ Len(storage.tree.leaves) = 2
        /\ root_hash(storage) = RootOfPrefix(1)

\* C10: add_new_file returns the number of leaves after the call minus one;
\* the ids returned are 0, 1, 2, ... with none repeated or skipped; whenever
\* the lock is free there are as many files as leaves, one id returned per
\* file, and leaf i is the digest of file i.
C10_IdsDenseAndFilesMatchLeaves ==
    /\ \A w \in Workers :
          (workers[w].pc = "responding" /\ workers[w].kind = "upload")
              => workers[w].id = workers[w].leaves_after - 1
    /\ \A i \in 1..Len(issued) : issued[i] = i - 1
    /\ mutex = Free =>
          /\ Len(storage.files) = Len(storage.tree.leaves)
          /\ Len(issued) = Len(storage.files)
          /\ \A i \in 1..Len(storage.files) :
                storage.tree.leaves[i] = hash_content(storage.files[i])

C10_Witness ==
    /\ issued = <<0, 1>>
    /\ mutex = Free
    /\ Len(storage.files) = 2
    /\ storage.files[1] # storage.files[2]
    /\ \E w \in Workers :
          /\ workers[w].pc = "responding"
          /\ workers[w].kind = "upload"
          /\ workers[w].id = 1

\* The download under way passed verification and its content was written.
Accepted == cli.pc = "saved"

\* C4 as claimed: the content of a download of id that passed verification is
\* the content the client uploaded as file id.
C4_AcceptedBytesAreTheUploadedFile ==
    Accepted => (cli.id < Len(uploaded) /\ cli.content = uploaded[cli.id + 1])

\* The check of download_file on the response held by the command.
Verified ==
    /\ cli.root # None
    /\ Proof_verify([nodes |-> cli.proof], cli.root[1], hash_content(cli.content))

\* C8: the content is written only by a step of a download whose proof
\* verified against the root of the loaded light tree; a download whose proof
\* does not verify ends in the error and leaves the path as it was.
C8_WrittenOnlyIfVerified ==
    [][/\ (disk' # disk \/ cli'.pc = "saved")
            => (cli.pc = "received" /\ Verified /\ disk' = Some(cli.content))
       /\ (cli.pc = "received" /\ cli.root # None /\ ~Verified)
            => (cli'.pc = "verification_failed" /\ disk' = disk)]_vars

C8_Witness ==
    /\ cli.pc = "verification_failed"
    /\ disk # None
    /\ cli.content # disk[1]
    /\ cli.content \in Contents
    /\ Len(cli.proof) = 1
    /\ Len(uploaded) = 2

\* C11: after every upload command of a single uploader, the light tree
\* loaded from the state file is the light tree a client that never stored it
\* holds, its root is the server's root, and both are what one command
\* uploading all the files at once leaves: the split into batches changes
\* nothing.
C11_PersistedTreeFollowsServer ==
    LET loaded == load_state(state_file)
    IN /\ loaded # None
       /\ loaded[1].light_tree = light_tree
       /\ LightTree_root(loaded[1].light_tree) = root_hash(storage)
       /\ LightTree_root(loaded[1].light_tree) = LightTree_root(light_tree)
       /\ loaded[1].light_tree = append_files(LightTree_new, uploaded)
       /\ storage = storage_of(uploaded)

C11_Witness ==
    /\ Len(uploaded) = MaxPersistFiles
    /\ Len(uploaded) > 2 * MaxBatch
    /\ uploaded[1] # uploaded[2]
    /\ load_state(state_file) # None
    /\ Len(load_state(state_file)[1].light_tree.nodes) = 3
    /\ \E k \in 1..3 : load_state(state_file)[1].light_tree.nodes[k].state.tag # "Full"
    /\ LightTree_root(load_state(state_file)[1].light_tree) = root_hash(storage)
    /\ root_hash(storage) # None

\* C12: root() of the full tree and of the light tree is None exactly when no
\* leaf has been appended, and a root that is Some stays Some over every
\* later append.
C12_RootNoneIffNoLeaf ==
    /\ [](/\ Tree_root(tree) = None <=> tree.leaves = <<>>
          /\ LightTree_root(light_tree) = None <=> tree.leaves = <<>>)
    /\ [][/\ Tree_root(tree) # None => Tree_root(tree') # None
          /\ LightTree_root(light_tree) # None => LightTree_root(light_tree') # None]_vars

C12_Witness ==
    /\ Len(tree.leaves) = 1
    /\ Tree_root(tree) = Some(hash_of(tree.leaves[1], tree.leaves[1]))
    /\ LightTree_root(light_tree) = Some(hash_of(tree.leaves[1], tree.leaves[1]))
    /\ tree.nodes = <<<<hash_of(tree.leaves[1], tree.leaves[1])>>>>

\* The string has the length of the text of a digest: an even number of
\* characters that stand for as many bytes as a digest has.
HasDigestLength(str) == Len(str) % 2 = 0 /\ is_digest_width(hex_pairs(str))

\* C13 as claimed: from_str returns Err for every string with a character
\* that is no hex digit, with an uppercase hex digit, or of another length
\* than a digest's text, and a Hash only for a lowercase hex string of that
\* length.
C13_ParsingStrictAndTotal ==
    parse.called =>
        LET str == parse.input
            non_hex == \E i \in 1..Len(str) : str[i] \notin 0..21
            upper == \E i \in 1..Len(str) : str[i] \in 16..21
            lower_hex == \A i \in 1..Len(str) : str[i] \in 0..15
        IN /\ (non_hex \/ upper \/ ~HasDigestLength(str)) => parse.kind = "Err"
           /\ parse.kind = "Ok" => (lower_hex /\ HasDigestLength(str))

\* C14: after every append, every entry of every level above the leaves is
\* the combine of its two children on the level below, or of its left child
\* with itself when that child is the last of an odd-length level; none is
\* stale and none is without a child.
C14_InteriorNodesAreParents ==
    \A k \in 0..(Len(tree.nodes) - 1) :
        \A p \in 0..(Len(Level(tree, k + 1)) - 1) :
            /\ 2 * p < Len(Level(tree, k))
            /\ Level(tree, k + 1)[p + 1] = ParentAt(Level(tree, k), p)

C14_Witness ==
    /\ Len(tree.leaves) = 6
    /\ tree.leaves[5] # tree.leaves[6]
    /\ tree.leaves[1] # tree.leaves[2]
    /\ Len(tree.nodes) = 3
    /\ tree.nodes[1][3] = hash_of(tree.leaves[5], tree.leaves[6])
    /\ tree.nodes[2][2] = hash_of(tree.nodes[1][3], tree.nodes[1][3])
    /\ tree.nodes[3] = <<hash_of(tree.nodes[2][1], tree.nodes[2][2])>>

\* C15: after n >= 1 appends every level above the leaves has half as many
\* entries as the level below, rounded up; the topmost level has one entry
\* and is the only level of one entry, but for the leaf level when n = 1.
C15_LevelShape ==
    Len(tree.leaves) >= 1 =>
        /\ Len(tree.nodes) >= 1
        /\ \A k \in 0..(Len(tree.nodes) - 1) :
              Len(Level(tree, k + 1)) = HalfUp(Len(Level(tree, k)))
        /\ Len(Level(tree, Len(tree.nodes))) = 1
        /\ \A k \in 0..(Len(tree.nodes) - 1) :
              Len(Level(tree, k)) = 1 => (k = 0 /\ Len(tree.leaves) = 1)

C15_Witness ==
    /\ Len(tree.leaves) = 9
    /\ Len(tree.nodes) = 4
    /\ Len(tree.nodes[1]) = 5
    /\ Len(tree.nodes[2]) = 3
    /\ Len(tree.nodes[3]) = 2
    /\ Len(tree.nodes[4]) = 1
    /\ tree.leaves[1] # tree.leaves[9]

\* C16 as claimed: where level k + 1 was there already, the parent is added
\* to it when the length of level k after its update is even, and put in its
\* last entry when that length is odd and above 1.
C16_AppendOnEvenOverwriteOnOdd ==
    \A j \in 1..(Len(trace) - 1) :
        LET e == trace[j]
            f == trace[j + 1]
        IN e.above =>
            /\ e.len % 2 = 0 => Pushed(f)
            /\ (e.len % 2 = 1 /\ e.len > 1) => Overwrote(f)

\* C16 amended: where level k + 1 was there already, the parent of the last
\* pair of level k is put in the last entry of level k + 1 when the length of
\* level k after its update is even or level k had its own last entry
\* overwritten, and is added to level k + 1 when that length is odd and level
\* k had an entry added.
C16_OverwriteOnEvenAppendOnOdd ==
    \A j \in 1..(Len(trace) - 1) :
        LET e == trace[j]
            f == trace[j + 1]
        IN /\ f.level = e.level + 1
           /\ e.above = f.existed
           /\ f.len = HalfUp(e.len)
           /\ Level(tree, f.level)[f.len] = ParentAt(Level(tree, e.level), f.len - 1)
           /\ e.above =>
                 /\ e.len > 1
                 /\ (e.len % 2 = 0 \/ Overwrote(e)) => Overwrote(f)
                 /\ (e.len % 2 = 1 /\ Pushed(e)) => Pushed(f)

C16_Witness ==
    /\ frame.pc = "returned"
    /\ Len(tree.leaves) = 7
    /\ Len(trace) = 4
    /\ Pushed(trace[1]) /\ trace[1].len = 7 /\ trace[1].above
    /\ Pushed(trace[2]) /\ trace[2].len = 4 /\ trace[2].above
    /\ Overwrote(trace[3]) /\ trace[3].len = 2
    /\ Overwrote(trace[4])
    /\ tree.leaves[6] # tree.leaves[7]

\* C17: within one append, once a level has its last entry overwritten every
\* level touched after it has its last entry overwritten too: none of them
\* gets an entry added and none is made.  The append made call by call ends
\* in the tree the whole call gives.
C17_StickyOverwrite ==
    /\ \A i \in 1..Len(trace) : \A j \in (i + 1)..Len(trace) :
          Overwrote(trace[i]) =>
              /\ Overwrote(trace[j])
              /\ trace[j].existed
              /\ trace[j].len = trace[j].was
    /\ frame.pc = "returned" => AppendDone

C17_Witness ==
    /\ AppendDone
    /\ Len(tree.leaves) = 6
    /\ Len(trace) = 4
    /\ Pushed(trace[1])
    /\ Overwrote(trace[2]) /\ trace[2].len = 3
    /\ Overwrote(trace[3]) /\ trace[3].len = 2
    /\ Overwrote(trace[4]) /\ trace[4].len = 1
    /\ tree.leaves[5] # tree.leaves[6]

\* C18 as claimed: at a level of exactly one entry with no level above it,
\* the leaf level included, the append stops there, makes no level, and the
\* entry is the root.
C18_StopAtSingleEntry ==
    \A j \in 1..Len(trace) :
        (trace[j].len = 1 /\ ~trace[j].above) =>
            /\ j = Len(trace)
            /\ frame.pc = "returned"
            /\ Len(tree.nodes) = trace[j].level
            /\ Tree_root(tree) = Some(Level(tree, trace[j].level)[1])

\* C18 amended: at a level above the leaves of exactly one entry with no
\* level above it the append stops, makes no level, and the entry is the
\* root; at the leaf level of one entry with no level above it the append
\* goes on and makes level 1 with the single entry combine(h, h), the root.
\* An append stops nowhere else.
C18_StopAtSingleInteriorEntry ==
    /\ \A j \in 1..Len(trace) :
          (trace[j].len = 1 /\ ~trace[j].above) =>
              IF trace[j].level >= 1
              THEN /\ j = Len(trace)
                   /\ frame.pc = "returned"
                   /\ Len(tree.nodes) = trace[j].level
                   /\ Tree_root(tree) = Some(Level(tree, trace[j].level)[1])
              ELSE LET h == tree.leaves[1]
                   IN \/ /\ frame.pc = "called"
                         /\ frame.layer = 0
                         /\ frame.hash = hash_of(h, h)
                         /\ Len(trace) = 1
                      \/ /\ frame.pc = "returned"
                         /\ Len(trace) = 2
                         /\ Created(trace[2])
                         /\ tree.nodes = <<<<hash_of(h, h)>>>>
                         /\ Tree_root(tree) = Some(hash_of(h, h))
    /\ (frame.pc = "returned" /\ trace # <<>>) =>
          /\ trace[Len(trace)].level >= 1
          /\ trace[Len(trace)].len = 1
          /\ ~trace[Len(trace)].above

C18_Witness ==
    /\ frame.pc = "returned"
    /\ Len(tree.leaves) = 4
    /\ Len(trace) = 3
    /\ trace[3].level = 2
    /\ trace[3].len = 1
    /\ ~trace[3].above
    /\ Overwrote(trace[3])
    /\ Len(tree.nodes) = 2
    /\ Tree_root(tree) = Some(tree.nodes[2][1])
    /\ tree.leaves[1] # tree.leaves[4]

\* C19: the proof of leaf i < n has one entry per level below the topmost
\* level, the leaf level first; entry k is the right neighbour of position
\* idx_k = floor(i / 2^k) of level k when idx_k is even and has one, the left
\* neighbour when idx_k is odd, and the absent entry exactly when idx_k is
\* the last position of a level of odd length.  Two leaves and index 1 give
\* the one entry LeftSibling(first leaf).
C19_ProofShape ==
    ProofInRange =>
        LET nodes == proof.result[1].nodes
            i == proof.index
        IN /\ Len(nodes) = Len(tree.nodes)
           /\ \A k \in 0..(Len(nodes) - 1) :
                 LET level == Level(tree, k)
                     idx == IndexAt(i, k)
                 IN /\ idx < Len(level)
                    /\ nodes[k + 1] = EntryAt(level, idx)
                    /\ nodes[k + 1] = ProofNone
                           <=> (idx = Len(level) - 1 /\ Len(level) % 2 = 1)
           /\ (Len(tree.leaves) = 2 /\ i = 1) => nodes = <<LeftSibling(tree.leaves[1])>>

C19_Witness ==
    /\ ProofInRange
    /\ Len(tree.leaves) = 6
    /\ proof.index = 4
    /\ tree.leaves[5] # tree.leaves[6]
    /\ proof.result[1].nodes = <<RightSiblign(tree.leaves[6]), ProofNone,
                                 LeftSibling(tree.nodes[2][1])>>

\* C20: after every append of the same leaf to both trees the light tree has
\* as many nodes as the full tree has levels above the leaves, and the hash
\* of its node k is the last entry of level k of the full tree.
C20_FrontierAgreement ==
    /\ Len(light_tree.nodes) = Len(tree.nodes)
    /\ \A k \in 1..Len(tree.nodes) :
          light_tree.nodes[k].hash = tree.nodes[k][Len(tree.nodes[k])]

C20_Witness ==
    /\ Len(tree.leaves) = 10
    /\ Len(light_tree.nodes) = 4
    /\ tree.leaves[9] # tree.leaves[10]
    /\ light_tree.nodes[1].hash = hash_of(tree.leaves[9], tree.leaves[10])
    /\ light_tree.nodes[2].hash = tree.nodes[2][3]
    /\ light_tree.nodes[3].hash = tree.nodes[3][2]
    /\ light_tree.nodes[4].hash = tree.nodes[4][1]

\* C21 as claimed: every node of the light tree in state PartialRight(left)
\* or PartialLeft(left) has the hash combine(left, left).
C21_PartialHashIsLeftWithItself ==
    \A k \in 1..Len(light_tree.nodes) :
        LET node == light_tree.nodes[k]
        IN node.state.tag # "Full" => node.hash = hash_of(node.state.left, node.state.left)

\* C21 amended: the bottom node in state PartialRight(left) has the hash
\* combine(left, left); a node above the bottom in state PartialRight(left)
\* has the hash combine(left, c), c the hash of the node below it; a node in
\* state PartialLeft(left) is above the bottom and has the hash
\* combine(c, c), whatever left is.
C21_PartialHashFollowsNodeBelow ==
    \A k \in 1..Len(light_tree.nodes) :
        LET node == light_tree.nodes[k]
        IN /\ (node.state.tag = "PartialRight" /\ k = 1)
                 => node.hash = hash_of(node.state.left, node.state.left)
           /\ (node.state.tag = "PartialRight" /\ k > 1)
                 => node.hash = hash_of(node.state.left, light_tree.nodes[k - 1].hash)
           /\ node.state.tag = "PartialLeft"
                 => /\ k > 1
                    /\ node.hash = hash_of(light_tree.nodes[k - 1].hash,
                                           light_tree.nodes[k - 1].hash)

C21_Witness ==
    /\ Len(tree.leaves) = 10
    /\ Len(light_tree.nodes) = 4
    /\ light_tree.nodes[3].state.tag = "PartialLeft"
    /\ light_tree.nodes[3].state.left # light_tree.nodes[2].hash
    /\ light_tree.nodes[3].hash = hash_of(light_tree.nodes[2].hash, light_tree.nodes[2].hash)
    /\ light_tree.nodes[4].state.tag = "PartialRight"
    /\ light_tree.nodes[4].hash # hash_of(light_tree.nodes[4].state.left,
                                          light_tree.nodes[4].state.left)
    /\ light_tree.nodes[4].hash = hash_of(light_tree.nodes[4].state.left,
                                          light_tree.nodes[3].hash)

\* C22: after n >= 1 appends the light tree has max(1, ceil(log2 n)) nodes,
\* and its top node is Full exactly when n is 2^k for a k >= 1; an append to
\* a tree of n >= 1 leaves adds a node exactly when n is such a power of two,
\* which is exactly when the top node is Full, and it adds one node then; no
\* append removes a node.
C22_LogarithmicFrontier ==
    /\ [](LET n == Len(tree.leaves)
              nodes == light_tree.nodes
          IN n >= 1 =>
              /\ Len(nodes) = (IF CeilLog2(n) > 1 THEN CeilLog2(n) ELSE 1)
              /\ nodes[Len(nodes)].state = Full <=> IsPow2(n))
    /\ [][LET n == Len(tree.leaves)
              nodes == light_tree.nodes
          IN /\ Len(light_tree'.nodes) >= Len(nodes)
             /\ (n >= 1 /\ Len(tree'.leaves) = n + 1) =>
                   /\ Len(light_tree'.nodes) \in {Len(nodes), Len(nodes) + 1}
                   /\ Len(light_tree'.nodes) = Len(nodes) + 1 <=> IsPow2(n)
                   /\ Len(light_tree'.nodes) = Len(nodes) + 1
                         <=> nodes[Len(nodes)].state = Full]_vars

C22_Witness ==
    /\ Len(tree.leaves) = 9
    /\ Len(light_tree.nodes) = 4
    /\ light_tree.nodes[4].state.tag = "PartialRight"
    /\ light_tree.nodes[4].state.left = tree.nodes[3][1]
    /\ light_tree.nodes[3].state.tag = "PartialLeft"
    /\ tree.leaves[8] # tree.leaves[9]

\* C23: the assertion of the PartialLeft arm never fails: no append panics,
\* the bottom node is never PartialLeft, and in every append to a tree that
\* is not empty the loop visits the bottom node with new_element_stored false
\* and every node above it with new_element_stored true.
C23_AssertionNeverFails ==
    /\ [](/\ ~panicked
          /\ light_tree.nodes # <<>> => light_tree.nodes[1].state.tag # "PartialLeft")
    /\ [][(light_tree.nodes # <<>> /\ Len(tree'.leaves) = Len(tree.leaves) + 1) =>
              LET elem == tree'.leaves[Len(tree'.leaves)]
                  nodes == with_new_top(light_tree.nodes)
                  flags == walk_stored(nodes, 1, elem, FALSE, FALSE)
              IN /\ light_walk(nodes, 1, elem, FALSE, FALSE).nodes = light_tree'.nodes
                 /\ Len(flags) = Len(nodes)
                 /\ flags[1] = FALSE
                 /\ \A k \in 2..Len(flags) : flags[k] = TRUE
                 /\ ~panicked']_vars

C23_Witness ==
    /\ ~panicked
    /\ Len(tree.leaves) = 6
    /\ Len(light_tree.nodes) = 3
    /\ light_tree.nodes[1].state = Full
    /\ light_tree.nodes[2].state = PartialRight(hash_of(tree.leaves[5], tree.leaves[6]))
    /\ light_tree.nodes[3].state.tag = "PartialRight"
    /\ tree.leaves[5] # tree.leaves[6]

\* C24: an append keeps every leaf appended before in its place and adds one
\* leaf at the end; it removes no level and makes at most one; on every level
\* above the leaves that was there it either adds one entry at the end and
\* changes none, or changes at most the last entry; every entry before the
\* last one of a level is unchanged.
C24_AppendFrame ==
    [][Len(tree'.leaves) = Len(tree.leaves) + 1 =>
          /\ SubSeq(tree'.leaves, 1, Len(tree.leaves)) = tree.leaves
          /\ Len(tree'.nodes) \in {Len(tree.nodes), Len(tree.nodes) + 1}
          /\ Len(tree'.nodes) = Len(tree.nodes) + 1 => Len(tree'.nodes[Len(tree'.nodes)]) = 1
          /\ \A k \in 1..Len(tree.nodes) :
                LET old == tree.nodes[k]
                    new == tree'.nodes[k]
                IN /\ Len(new) \in {Len(old), Len(old) + 1}
                   /\ SubSeq(new, 1, Len(old) - 1) = SubSeq(old, 1, Len(old) - 1)
                   /\ Len(new) = Len(old) + 1 => new[Len(old)] = old[Len(old)]]_vars

C24_Witness ==
    /\ Len(tree.leaves) = 7
    /\ Len(tree.nodes) = 3
    /\ Len(tree.nodes[1]) = 4
    /\ tree.leaves[5] # tree.leaves[6]
    /\ tree.leaves[6] # tree.leaves[7]
    /\ tree.nodes[1][3] = hash_of(tree.leaves[5], tree.leaves[6])
    /\ tree.nodes[1][4] = hash_of(tree.leaves[7], tree.leaves[7])
    /\ tree.nodes[2][2] = hash_of(tree.nodes[1][3], tree.nodes[1][4])

\* C25: while an upload command runs and after it failed the state file is
\* what the command found; the state file changes only in the step that
\* follows the last upload and the root fetch, all successful, and it then
\* holds the loaded tree with every leaf of the batch; a command that fails
\* leaves it alone however many files the server stored.
C25_FailedUploadKeepsState ==
    /\ [](upload.pc \in {"nothing", "reading", "uploading", "fetching", "failed"}
             => state_file = upload.before)
    /\ [][/\ state_file' # state_file =>
                /\ upload.pc = "fetching"
                /\ upload.files = <<>>
                /\ upload.accepted = Len(upload.batch)
                /\ upload'.pc = "done"
                /\ state_file' = Some(store_state([light_tree |->
                       append_files(load_state(upload.before)[1].light_tree, upload.batch)]))
          /\ upload'.pc = "failed" => state_file' = upload.before
          /\ upload'.pc = "done" => state_file' # upload.before]_vars

C25_Witness ==
    /\ upload.pc = "failed"
    /\ Len(upload.batch) = 2
    /\ upload.accepted = 1
    /\ Len(storage.files) = 3
    /\ state_file = upload.before
    /\ Len(load_state(state_file)[1].light_tree.nodes) = 1
    /\ upload.light_tree # load_state(state_file)[1].light_tree
    /\ LightTree_root(load_state(state_file)[1].light_tree) # root_hash(storage)

====
